---- MODULE Spec2Model ----
(***************************************************************************)
(* A model of result.py: the Result container, its two factories, its      *)
(* queries, the unwrap family, the five combinators, equality and hashing. *)
(*                                                                         *)
(* Instances live in `heap` (a sequence, an instance's identity is its     *)
(* index).  Every method is an operator from the heap, the receiver and    *)
(* the arguments to an outcome: the heap afterwards, the value returned or *)
(* the exception raised, and the callbacks invoked in order.               *)
(***************************************************************************)
EXTENDS Naturals, Sequences, FiniteSets

VARIABLES heap, last, chain, pyset, added

vars == <<heap, last, chain, pyset, added>>

\* The most instances a behaviour of Spec allocates.
MaxObjs == 2

\* The most combinator calls in one chain (SpecChain).
MaxChainLen == 2

\* The most instances offered to one Python set (SpecSet).
MaxSetObjs == 3

-----------------------------------------------------------------------------
(* Python values.  t is the value's class, n its number (bool, int) or the  *)
(* identity of a Result, s its text (str) or its name (a function).         *)

PyNone == [t |-> "NoneType", n |-> 0, s |-> ""]

PyBool(b) == [t |-> "bool", n |-> IF b THEN 1 ELSE 0, s |-> ""]

PyInt(i) == [t |-> "int", n |-> i, s |-> ""]

PyStr(str) == [t |-> "str", n |-> 0, s |-> str]

PyFn(name) == [t |-> "function", n |-> 0, s |-> name]

Ref(id) == [t |-> "Result", n |-> id, s |-> ""]

\* What a call that raised "returns".
NoRet == [t |-> "<raised>", n |-> 0, s |-> ""]

\* Ok() called without an argument.
NoArg == [t |-> "<no argument>", n |-> 0, s |-> ""]

\* The payloads the callers supply: None, True, 1 (== True), and a str.
Payloads == {PyNone, PyBool(TRUE), PyInt(1), PyStr("yay")}

\* The messages the callers pass to expect / expect_err.
Messages == {PyStr("failure"), PyStr("hello")}

\* What a caller may pass as `force` to the raw constructor (or leave out).
ForceArgs == {NoArg, PyBool(FALSE), PyBool(TRUE), PyInt(1)}

IsNumber(v) == v.t \in {"bool", "int"}

\* v == w on payloads: bool and int compare by number, the rest by class and text.
PyEq(v, w) == IF IsNumber(v) /\ IsNumber(w) THEN v.n = w.n ELSE v = w

\* hash(v) of a payload: a number hashes to itself, so hash(True) = hash(1).
PyHash(v) ==
    CASE IsNumber(v) -> v.n
      [] v.t = "NoneType" -> 7
      [] v.t = "str" -> 11 + Len(v.s)
      [] OTHER -> 0

\* hash((a, b)) of a 2-tuple, from its elements' hashes.
TupleHash(ha, hb) == ((ha * 31) + hb) % 65536

-----------------------------------------------------------------------------
(* The callbacks the callers pass.  A plain callback maps a payload to a    *)
(* payload; a result callback maps a payload to a new Result.               *)

Callbacks == {"ident", "rot", "hay"}

ResultCallbacks == {"ok_ident", "ok_rot", "err_ident", "err_rot"}

Apply(fn, v) ==
    CASE fn = "ident" -> v
      [] fn = "hay" -> PyStr("yay")
      [] fn = "rot" ->
            CASE v = PyNone -> PyBool(TRUE)
              [] v = PyBool(TRUE) -> PyStr("yay")
              [] v = PyStr("yay") -> PyInt(1)
              [] OTHER -> PyNone

ReturnsOk(rfn) == rfn \in {"ok_ident", "ok_rot"}

Inner(rfn) == IF rfn \in {"ok_ident", "err_ident"} THEN "ident" ELSE "rot"

Invocation(role, fn, v) == [role |-> role, fn |-> fn, arg |-> v]

-----------------------------------------------------------------------------
(* Outcomes of a call.                                                      *)

Return(h, v) == [heap |-> h, ret |-> v, exc |-> "none", msg |-> PyNone, calls |-> <<>>]

Raise(h, kind, message) ==
    [heap |-> h, ret |-> NoRet, exc |-> kind, msg |-> message, calls |-> <<>>]

\* The outcome `out` of code that ran after the callback invocation `call`.
Invoked(call, out) == [out EXCEPT !.calls = <<call>> \o @]

\* class UnwrapError(Exception): its bases, and those of the builtin RuntimeError.
Bases(kind) ==
    CASE kind = "UnwrapError" -> {"UnwrapError", "Exception"}
      [] kind = "RuntimeError" -> {"RuntimeError", "Exception"}
      [] kind = "AttributeError" -> {"AttributeError", "Exception"}
      [] OTHER -> {}

-----------------------------------------------------------------------------
(* Construction.                                                            *)

InitMessage ==
    PyStr("Don't instantiate a Result directly. Use the Ok(value) and Err(error) class methods instead.")

\* Mutant: `if not force` in place of `if force is not True`.
Result_init_truthy(h, isok, val, force) ==
    IF force \in {PyBool(FALSE), PyInt(0), PyNone}
    THEN Raise(h, "RuntimeError", InitMessage)
    ELSE Return(Append(h, [is_ok |-> isok, value |-> val]), Ref(Len(h) + 1))

\* Mutant: the refusal raised as UnwrapError.
Result_init_unwrap_error(h, isok, val, force) ==
    IF force # PyBool(TRUE)
    THEN Raise(h, "UnwrapError", InitMessage)
    ELSE Return(Append(h, [is_ok |-> isok, value |-> val]), Ref(Len(h) + 1))

\* Result(is_ok, value, force): raises unless force is True (the object True).
Result_init(h, isok, val, force) ==
    IF force # PyBool(TRUE)
    THEN Raise(h, "RuntimeError", InitMessage)
    ELSE Return(Append(h, [is_ok |-> isok, value |-> val]), Ref(Len(h) + 1))

Result_Ok(h, val) ==
    Result_init(h, TRUE, IF val = NoArg THEN PyBool(TRUE) ELSE val, PyBool(TRUE))

Result_Err(h, error) == Result_init(h, FALSE, error, PyBool(TRUE))

Ok(h, val) == Result_Ok(h, val)

Err(h, error) == Result_Err(h, error)

-----------------------------------------------------------------------------
(* Queries.                                                                 *)

is_ok(h, self) == Return(h, PyBool(h[self].is_ok))

is_err(h, self) == Return(h, PyBool(~h[self].is_ok))

\* Mutant: ok() without the test of the variant.
ok_unchecked(h, self) == Return(h, h[self].value)

ok(h, self) ==
    IF is_ok(h, self).ret = PyBool(TRUE) THEN Return(h, h[self].value) ELSE Return(h, PyNone)

err(h, self) ==
    IF is_err(h, self).ret = PyBool(TRUE) THEN Return(h, h[self].value) ELSE Return(h, PyNone)

value(h, self) == Return(h, h[self].value)

-----------------------------------------------------------------------------
(* The unwrap family.  The default messages are the source's, without      *)
(* their backquotes.                                                        *)

UnwrapDefault == PyStr("Called Result.unwrap() on an Err value")

UnwrapErrDefault == PyStr("Called Result.unwrap_err() on an Ok value")

\* Mutant: expect() that hands out the payload of an Err.
expect_lenient(h, self, message) == Return(h, h[self].value)

expect(h, self, message) ==
    IF h[self].is_ok THEN Return(h, h[self].value) ELSE Raise(h, "UnwrapError", message)

unwrap(h, self) == expect(h, self, UnwrapDefault)

unwrap_or(h, self, default) ==
    IF h[self].is_ok THEN Return(h, h[self].value) ELSE Return(h, default)

expect_err(h, self, message) ==
    IF h[self].is_ok THEN Raise(h, "UnwrapError", message) ELSE Return(h, h[self].value)

unwrap_err(h, self) == expect_err(h, self, UnwrapErrDefault)

unwrap_or_else(h, self, op) ==
    IF h[self].is_ok
    THEN Return(h, h[self].value)
    ELSE Invoked(Invocation("op", op, h[self].value), Return(h, Apply(op, h[self].value)))

-----------------------------------------------------------------------------
(* The combinators.  A result callback builds its Result through Ok or Err. *)

\* op(v) for a result callback: lambda x: Ok(g(x)) or lambda x: Err(g(x)).
CallResultCallback(h, rfn, v) ==
    IF ReturnsOk(rfn) THEN Ok(h, Apply(Inner(rfn), v)) ELSE Err(h, Apply(Inner(rfn), v))

\* Mutant: map() that transforms the payload of an Err as well.
map_both(h, self, op) ==
    IF h[self].is_ok
    THEN Invoked(Invocation("op", op, h[self].value), Ok(h, Apply(op, h[self].value)))
    ELSE Invoked(Invocation("op", op, h[self].value), Err(h, Apply(op, h[self].value)))

map(h, self, op) ==
    IF h[self].is_ok
    THEN Invoked(Invocation("op", op, h[self].value), Ok(h, Apply(op, h[self].value)))
    ELSE Err(h, h[self].value)

\* Mutant: map_or_else() that keeps the variant, as map and map_err do.
map_or_else_keeps_variant(h, self, default_op, op) ==
    IF h[self].is_ok
    THEN map(h, self, op)
    ELSE Invoked(Invocation("default_op", default_op, h[self].value),
                 Err(h, Apply(default_op, h[self].value)))

map_or_else(h, self, default_op, op) ==
    IF h[self].is_ok
    THEN map(h, self, op)
    ELSE Invoked(Invocation("default_op", default_op, h[self].value),
                 Ok(h, Apply(default_op, h[self].value)))

\* Mutant: map_err() that writes the new payload into the receiver.
map_err_in_place(h, self, op) ==
    IF h[self].is_ok
    THEN Return(h, Ref(self))
    ELSE Invoked(Invocation("op", op, h[self].value),
                 Return([h EXCEPT ![self].value = Apply(op, @)], Ref(self)))

map_err(h, self, op) ==
    IF h[self].is_ok
    THEN Ok(h, h[self].value)
    ELSE Invoked(Invocation("op", op, h[self].value), Err(h, Apply(op, h[self].value)))

\* Mutant: and_then() that calls op whatever the variant.
and_then_always(h, self, op) ==
    Invoked(Invocation("op", op, h[self].value), CallResultCallback(h, op, h[self].value))

and_then(h, self, op) ==
    IF h[self].is_ok
    THEN Invoked(Invocation("op", op, h[self].value), CallResultCallback(h, op, h[self].value))
    ELSE Err(h, h[self].value)

or_else(h, self, op) ==
    IF h[self].is_ok
    THEN Ok(h, h[self].value)
    ELSE Invoked(Invocation("op", op, h[self].value), CallResultCallback(h, op, h[self].value))

-----------------------------------------------------------------------------
(* Equality and hashing.  `other` is any value: a Ref or a plain value.     *)

\* other.is_ok() and other._value exist only on a Result.
HasResultAttrs(other) == other.t = "Result"

\* Mutant: __eq__ without the comparison of the classes.
Result_eq_any_class(h, self, other) ==
    IF ~HasResultAttrs(other)
    THEN Raise(h, "AttributeError", PyStr("is_ok"))
    ELSE IF h[self].is_ok # h[other.n].is_ok
    THEN Return(h, PyBool(FALSE))
    ELSE Return(h, PyBool(PyEq(h[self].value, h[other.n].value)))

\* self == other: the three conjuncts of __eq__, evaluated left to right, `and`
\* stopping at the first false one.
Result_eq(h, self, other) ==
    IF Ref(self).t # other.t
    THEN Return(h, PyBool(FALSE))
    ELSE IF ~HasResultAttrs(other)
    THEN Raise(h, "AttributeError", PyStr("is_ok"))
    ELSE IF is_ok(h, self).ret # is_ok(h, other.n).ret
    THEN Return(h, PyBool(FALSE))
    ELSE Return(h, PyBool(PyEq(h[self].value, h[other.n].value)))

\* self != other: not (self == other); an exception of == propagates.
Result_ne(h, self, other) ==
    LET e == Result_eq(h, self, other)
    IN  IF e.exc # "none" THEN e ELSE Return(h, PyBool(e.ret # PyBool(TRUE)))

\* Mutant: the hash of the instance's identity, as for a class without __hash__.
Result_hash_identity(h, self) == Return(h, PyInt(self))

\* hash(self) == hash((self.is_ok(), self._value))
Result_hash(h, self) ==
    Return(h, PyInt(TupleHash(PyHash(is_ok(h, self).ret), PyHash(h[self].value))))

\* s.add(x) on a Python set of Results: x is left out when a member with the same
\* hash is x itself or equal to it.
SetAdd(h, s, x) ==
    IF \E y \in s : /\ Result_hash(h, y).ret = Result_hash(h, x).ret
                    /\ (y = x \/ Result_eq(h, y, Ref(x)).ret = PyBool(TRUE))
    THEN s
    ELSE s \cup {x}

-----------------------------------------------------------------------------
(* The state machine.  `last` is the latest call: its name, its receiver    *)
(* (0 when it has none), its arguments and its outcome.                     *)

Ids == 1..Len(heap)

NoCall == [op |-> "", self |-> 0, args |-> <<>>, ret |-> NoRet, exc |-> "none",
           msg |-> PyNone, calls |-> <<>>]

NoChain == [start |-> 0, cur |-> 0, ops |-> <<>>, calls |-> <<>>]

Init ==
    /\ heap = <<>>
    /\ last = NoCall
    /\ chain = NoChain
    /\ pyset = {}
    /\ added = {}

\* The call `name` on `self` with `args` ran to the outcome `out`.
Do(name, self, args, out) ==
    /\ heap' = out.heap
    /\ last' = [op |-> name, self |-> self, args |-> args, ret |-> out.ret,
                exc |-> out.exc, msg |-> out.msg, calls |-> out.calls]

Call(name, self, args, out) == Len(out.heap) <= MaxObjs /\ Do(name, self, args, out)

Others == <<chain, pyset, added>>

CallOk(val) == Call("Ok", 0, <<val>>, Ok(heap, val)) /\ UNCHANGED Others

CallErr(error) == Call("Err", 0, <<error>>, Err(heap, error)) /\ UNCHANGED Others

\* A caller's own Result(is_ok, value[, force]); force defaults to False.
\* is_ok is a bool, as the signature declares it.
CallResult(isok, val, force) ==
    /\ Call("Result", 0, <<PyBool(isok), val, force>>,
            Result_init(heap, isok, val, IF force = NoArg THEN PyBool(FALSE) ELSE force))
    /\ UNCHANGED Others

CallIsOk(self) == Call("is_ok", self, <<>>, is_ok(heap, self)) /\ UNCHANGED Others

CallIsErr(self) == Call("is_err", self, <<>>, is_err(heap, self)) /\ UNCHANGED Others

CallOkMethod(self) == Call("ok", self, <<>>, ok(heap, self)) /\ UNCHANGED Others

CallErrMethod(self) == Call("err", self, <<>>, err(heap, self)) /\ UNCHANGED Others

CallValue(self) == Call("value", self, <<>>, value(heap, self)) /\ UNCHANGED Others

CallExpect(self, message) ==
    Call("expect", self, <<message>>, expect(heap, self, message)) /\ UNCHANGED Others

CallUnwrap(self) == Call("unwrap", self, <<>>, unwrap(heap, self)) /\ UNCHANGED Others

CallUnwrapOr(self, default) ==
    Call("unwrap_or", self, <<default>>, unwrap_or(heap, self, default)) /\ UNCHANGED Others

CallExpectErr(self, message) ==
    Call("expect_err", self, <<message>>, expect_err(heap, self, message)) /\ UNCHANGED Others

CallUnwrapErr(self) == Call("unwrap_err", self, <<>>, unwrap_err(heap, self)) /\ UNCHANGED Others

CallUnwrapOrElse(self, op) ==
    Call("unwrap_or_else", self, <<PyFn(op)>>, unwrap_or_else(heap, self, op)) /\ UNCHANGED Others

CallMap(self, op) == Call("map", self, <<PyFn(op)>>, map(heap, self, op)) /\ UNCHANGED Others

CallMapOrElse(self, default_op, op) ==
    /\ Call("map_or_else", self, <<PyFn(default_op), PyFn(op)>>,
            map_or_else(heap, self, default_op, op))
    /\ UNCHANGED Others

CallMapErr(self, op) ==
    Call("map_err", self, <<PyFn(op)>>, map_err(heap, self, op)) /\ UNCHANGED Others

CallAndThen(self, op) ==
    Call("and_then", self, <<PyFn(op)>>, and_then(heap, self, op)) /\ UNCHANGED Others

CallOrElse(self, op) ==
    Call("or_else", self, <<PyFn(op)>>, or_else(heap, self, op)) /\ UNCHANGED Others

CallEq(self, other) ==
    Call("==", self, <<other>>, Result_eq(heap, self, other)) /\ UNCHANGED Others

CallNe(self, other) ==
    Call("!=", self, <<other>>, Result_ne(heap, self, other)) /\ UNCHANGED Others

CallHash(self) == Call("hash", self, <<>>, Result_hash(heap, self)) /\ UNCHANGED Others

\* What a Result may be compared with: any instance, any plain value.
Operands == {Ref(i) : i \in Ids} \cup Payloads

Next ==
    \/ \E v \in Payloads \cup {NoArg} : CallOk(v)
    \/ \E e \in Payloads : CallErr(e)
    \/ \E b \in BOOLEAN, v \in Payloads, f \in ForceArgs : CallResult(b, v, f)
    \/ \E self \in Ids :
        \/ CallIsOk(self)
        \/ CallIsErr(self)
        \/ CallOkMethod(self)
        \/ CallErrMethod(self)
        \/ CallValue(self)
        \/ CallUnwrap(self)
        \/ CallUnwrapErr(self)
        \/ CallHash(self)
        \/ \E m \in Messages : CallExpect(self, m) \/ CallExpectErr(self, m)
        \/ \E d \in Payloads : CallUnwrapOr(self, d)
        \/ \E op \in Callbacks :
            \/ CallUnwrapOrElse(self, op)
            \/ CallMap(self, op)
            \/ CallMapErr(self, op)
            \/ \E default_op \in Callbacks : CallMapOrElse(self, default_op, op)
        \/ \E op \in ResultCallbacks : CallAndThen(self, op) \/ CallOrElse(self, op)
        \/ \E other \in Operands : CallEq(self, other) \/ CallNe(self, other)

Spec == Init /\ [][Next]_vars

-----------------------------------------------------------------------------
(* Chains: a result built by Ok or Err, then combinators applied each to    *)
(* the result of the one before.  `chain` keeps the first and the current   *)
(* instance, the combinators applied and every callback invocation so far.  *)

Extend(c, name, out) ==
    [c EXCEPT !.cur = out.ret.n, !.ops = Append(@, name), !.calls = @ \o out.calls]

ChainStart(isok, val) ==
    LET out == IF isok THEN Ok(heap, val) ELSE Err(heap, val)
    IN  /\ chain = NoChain
        /\ Do(IF isok THEN "Ok" ELSE "Err", 0, <<val>>, out)
        /\ chain' = [NoChain EXCEPT !.start = out.ret.n, !.cur = out.ret.n]
        /\ UNCHANGED <<pyset, added>>

ChainStep(name, args, out) ==
    /\ chain # NoChain
    /\ Len(chain.ops) < MaxChainLen
    /\ Do(name, chain.cur, args, out)
    /\ chain' = Extend(chain, name, out)
    /\ UNCHANGED <<pyset, added>>

ChainMap(op) == ChainStep("map", <<PyFn(op)>>, map(heap, chain.cur, op))

ChainAndThen(op) == ChainStep("and_then", <<PyFn(op)>>, and_then(heap, chain.cur, op))

ChainOrElse(op) == ChainStep("or_else", <<PyFn(op)>>, or_else(heap, chain.cur, op))

NextChain ==
    \/ \E b \in BOOLEAN, v \in Payloads : ChainStart(b, v)
    \/ \E op \in Callbacks : ChainMap(op)
    \/ \E op \in ResultCallbacks : ChainAndThen(op) \/ ChainOrElse(op)

SpecChain == Init /\ [][NextChain]_vars

-----------------------------------------------------------------------------
(* A Python set of Results: instances are built, then offered to the set.   *)

SetNew(isok, val) ==
    /\ Len(heap) < MaxSetObjs
    /\ Do(IF isok THEN "Ok" ELSE "Err", 0, <<val>>,
          IF isok THEN Ok(heap, val) ELSE Err(heap, val))
    /\ UNCHANGED <<chain, pyset, added>>

SetAddCall(x) ==
    /\ pyset' = SetAdd(heap, pyset, x)
    /\ added' = added \cup {x}
    /\ Do("set.add", 0, <<Ref(x)>>, Return(heap, PyNone))
    /\ UNCHANGED chain

NextSet ==
    \/ \E b \in BOOLEAN, v \in Payloads : SetNew(b, v)
    \/ \E x \in Ids : SetAddCall(x)

SpecSet == Init /\ [][NextSet]_vars

-----------------------------------------------------------------------------
(* Properties.                                                              *)

Yes == PyBool(TRUE)

No == PyBool(FALSE)

\* The receiver of the latest call, and the instance it returned.
Receiver == heap[last.self]

Returned == heap[last.ret.n]

ReturnedResult == last.exc = "none" /\ last.ret.t = "Result" /\ last.ret.n \in Ids

\* Two instances are the same variant with equal payloads.
Alike(r, q) == r.is_ok = q.is_ok /\ PyEq(r.value, q.value)

\* C1: a == b is true exactly when b is a Result of the same variant with an equal
\* payload, a != b is its negation, and neither raises, whatever b is.
C1_Equality ==
    last.op \in {"==", "!="} =>
        LET b == last.args[1]
            equal == b.t = "Result" /\ Alike(Receiver, heap[b.n])
        IN  /\ last.exc = "none"
            /\ last.op = "==" => last.ret = PyBool(equal)
            /\ last.op = "!=" => last.ret = PyBool(~equal)

\* A Result was compared with a plain value, and the answer was False.
C1_Witness ==
    /\ last.op = "=="
    /\ last.args[1] \in Payloads
    /\ last.args[1] = Receiver.value
    /\ last.ret = No

\* C2: unwrap / expect return the payload of an Ok and raise UnwrapError on an Err;
\* unwrap_err / expect_err return the payload of an Err and raise UnwrapError on an
\* Ok; the error carries the caller's message, or the operation's fixed default.
C2_Unwrap ==
    last.op \in {"unwrap", "expect", "unwrap_err", "expect_err"} =>
        IF Receiver.is_ok = (last.op \in {"unwrap", "expect"})
        THEN last.exc = "none" /\ last.ret = Receiver.value
        ELSE /\ last.exc = "UnwrapError"
             /\ last.ret = NoRet
             /\ last.op \in {"expect", "expect_err"} => last.msg = last.args[1]
             /\ last.op = "unwrap" => last.msg = UnwrapDefault
             /\ last.op = "unwrap_err" => last.msg = UnwrapErrDefault

\* expect_err on an Ok raised UnwrapError with the caller's message.
C2_Witness ==
    /\ last.op = "expect_err"
    /\ Receiver.is_ok
    /\ last.exc = "UnwrapError"
    /\ last.msg = PyStr("hello")

\* C3 as stated: every call of the raw constructor raises.
C3_Original == last.op = "Result" => last.exc # "none"

\* C3, amended: the raw constructor raises RuntimeError and leaves no instance
\* unless force is True, and then it adds the instance with the tag and payload
\* given; every instance that exists has a boolean tag and a payload.
C3_Construction ==
    /\ [](\A i \in Ids : heap[i].is_ok \in BOOLEAN /\ heap[i].value \in Payloads)
    /\ [][last'.op = "Result" =>
            IF last'.args[3] = Yes
            THEN /\ heap' = Append(heap, [is_ok |-> last'.args[1] = Yes,
                                          value |-> last'.args[2]])
                 /\ last'.exc = "none"
                 /\ last'.ret = Ref(Len(heap'))
            ELSE /\ heap' = heap
                 /\ last'.exc = "RuntimeError"
                 /\ last'.ret = NoRet]_vars

\* The raw constructor was called with a true value that is not True, and raised.
C3_Witness ==
    /\ last.op = "Result"
    /\ last.args[3] = PyInt(1)
    /\ last.exc = "RuntimeError"
    /\ Len(heap) > 0

\* C4 as stated: the raw constructor's refusal is an UnwrapError.
C4_Original == (last.op = "Result" /\ last.exc # "none") => "UnwrapError" \in Bases(last.exc)

\* C4, amended: the raw constructor's refusal is a RuntimeError, which is no
\* UnwrapError (and UnwrapError no RuntimeError); only the four failing unwrap
\* operations raise UnwrapError.
C4_ErrorKinds ==
    /\ (last.op = "Result" /\ last.exc # "none") =>
            /\ last.exc = "RuntimeError"
            /\ "UnwrapError" \notin Bases(last.exc)
            /\ "RuntimeError" \notin Bases("UnwrapError")
    /\ last.exc = "UnwrapError" =>
            last.op \in {"unwrap", "expect", "unwrap_err", "expect_err"}

\* The raw constructor was called without force, and raised.
C4_Witness == last.op = "Result" /\ last.args[3] = NoArg /\ last.exc = "RuntimeError"

\* C5 as stated: ok() is absent (None) exactly on an Err, err() exactly on an Ok.
C5_Original ==
    /\ last.op = "ok" => (last.ret = PyNone <=> ~Receiver.is_ok)
    /\ last.op = "err" => (last.ret = PyNone <=> Receiver.is_ok)

\* C5, amended: ok() returns the payload of an Ok and None on an Err, err() the
\* payload of an Err and None on an Ok; so ok() is None exactly when the receiver
\* is an Err or holds None, and err() exactly when it is an Ok or holds None.
C5_OkErr ==
    /\ last.op = "ok" =>
            /\ last.exc = "none"
            /\ last.ret = IF Receiver.is_ok THEN Receiver.value ELSE PyNone
            /\ last.ret = PyNone <=> (~Receiver.is_ok \/ Receiver.value = PyNone)
    /\ last.op = "err" =>
            /\ last.exc = "none"
            /\ last.ret = IF Receiver.is_ok THEN PyNone ELSE Receiver.value
            /\ last.ret = PyNone <=> (Receiver.is_ok \/ Receiver.value = PyNone)

\* ok() was called on Ok(None) and returned None.
C5_Witness ==
    /\ last.op = "ok"
    /\ Receiver = [is_ok |-> TRUE, value |-> PyNone]
    /\ last.ret = PyNone

\* The callback named by the i-th argument of the latest call.
FnArg(i) == last.args[i].s

\* C6: map transforms the payload of an Ok with one call of f and map_err that of
\* an Err; on the other variant each returns a result equal to the receiver
\* without calling f; neither changes the variant.
C6_Map ==
    last.op \in {"map", "map_err"} =>
        /\ ReturnedResult
        /\ Returned.is_ok = Receiver.is_ok
        /\ IF Receiver.is_ok = (last.op = "map")
           THEN /\ Returned.value = Apply(FnArg(1), Receiver.value)
                /\ last.calls = <<Invocation("op", FnArg(1), Receiver.value)>>
           ELSE /\ Result_eq(heap, last.ret.n, Ref(last.self)).ret = Yes
                /\ Returned.value = Receiver.value
                /\ last.calls = <<>>

\* map with a callback that changes every payload was called on an Err.
C6_Witness ==
    /\ last.op = "map"
    /\ ~Receiver.is_ok
    /\ FnArg(1) = "rot"
    /\ ReturnedResult
    /\ last.ret.n # last.self

ShortCircuits(name, r) == (name = "and_then" /\ ~r.is_ok) \/ (name = "or_else" /\ r.is_ok)

\* C7: and_then on an Err and or_else on an Ok return a result equal to the
\* receiver without calling f; on the other variant they call f once and return
\* the Result f built, of whichever variant; a chain of and_then / map calls
\* from an Err ends in a result equal to that Err with no callback called.
C7_Chaining ==
    /\ last.op \in {"and_then", "or_else"} =>
        /\ ReturnedResult
        /\ IF ShortCircuits(last.op, Receiver)
           THEN /\ Result_eq(heap, last.ret.n, Ref(last.self)).ret = Yes
                /\ Returned = Receiver
                /\ last.calls = <<>>
           ELSE /\ last.calls = <<Invocation("op", FnArg(1), Receiver.value)>>
                /\ last.ret.n = Len(heap)
                /\ Returned = [is_ok |-> ReturnsOk(FnArg(1)),
                               value |-> Apply(Inner(FnArg(1)), Receiver.value)]
    /\ ( /\ chain # NoChain
         /\ ~heap[chain.start].is_ok
         /\ \A i \in 1..Len(chain.ops) : chain.ops[i] \in {"and_then", "map"} ) =>
        /\ Result_eq(heap, chain.cur, Ref(chain.start)).ret = Yes
        /\ heap[chain.cur] = heap[chain.start]
        /\ chain.calls = <<>>

\* An Err went through and_then and then map.
C7_Witness ==
    /\ chain # NoChain
    /\ ~heap[chain.start].is_ok
    /\ chain.ops = <<"and_then", "map">>
    /\ chain.cur # chain.start

\* C8: map_or_else returns Ok(f(v)) on Ok(v) and Ok(g(e)) on Err(e), never an Err,
\* and calls exactly one of the two callbacks, once.
C8_MapOrElse ==
    last.op = "map_or_else" =>
        /\ ReturnedResult
        /\ Returned.is_ok
        /\ Len(last.calls) = 1
        /\ IF Receiver.is_ok
           THEN /\ Returned.value = Apply(FnArg(2), Receiver.value)
                /\ last.calls = <<Invocation("op", FnArg(2), Receiver.value)>>
           ELSE /\ Returned.value = Apply(FnArg(1), Receiver.value)
                /\ last.calls = <<Invocation("default_op", FnArg(1), Receiver.value)>>

\* map_or_else was called on an Err with two different callbacks.
C8_Witness ==
    /\ last.op = "map_or_else"
    /\ ~Receiver.is_ok
    /\ FnArg(1) # FnArg(2)
    /\ ReturnedResult
    /\ Returned.is_ok

Equal(a, b) == Result_eq(heap, a, Ref(b)).ret = Yes

\* C9: equal instances have equal hashes, and a set holds exactly one member for
\* every instance offered to it: the member equal to it.
C9_Hash ==
    /\ \A a \in Ids, b \in Ids : Equal(a, b) => Result_hash(heap, a).ret = Result_hash(heap, b).ret
    /\ pyset \subseteq added
    /\ \A x \in added : Cardinality({y \in pyset : Equal(y, x)}) = 1

\* Ok(True), Ok(1) and Err(1) were offered to the set, which holds two of them.
C9_Witness ==
    /\ Cardinality(added) = 3
    /\ Cardinality(pyset) = 2
    /\ \E a \in added, b \in added :
        /\ heap[a] = [is_ok |-> TRUE, value |-> PyBool(TRUE)]
        /\ heap[b] = [is_ok |-> TRUE, value |-> PyInt(1)]
    /\ \E a \in pyset, b \in pyset : heap[a].is_ok /\ ~heap[b].is_ok /\ heap[a].value = heap[b].value

\* C10: no call changes the tag or payload of an instance that exists, and every
\* instance answers true to exactly one of is_ok() and is_err().
C10_Immutable ==
    /\ [](\A i \in Ids : {is_ok(heap, i).ret, is_err(heap, i).ret} = {Yes, No})
    /\ [][\A i \in Ids : i <= Len(heap') /\ heap'[i] = heap[i]]_vars

\* map_err called its callback on the first instance and returned a second one
\* with another payload.
C10_Witness ==
    /\ Len(heap) = 2
    /\ last.op = "map_err"
    /\ last.self = 1
    /\ last.calls # <<>>
    /\ last.ret = Ref(2)
    /\ heap[2].value # heap[1].value

====
